---- MODULE Spec2Model ----
(***************************************************************************)
(* Apillon MCP server: tool descriptors, argument validation, the domain   *)
(* handlers (storage, hosting, NFT) and the call_tool / list_tools         *)
(* handlers of the server process.                                         *)
(*                                                                         *)
(* A tool call is followed from the request to its response envelope.      *)
(* Every `await` of a handler is a step of its own, so that calls that the *)
(* server has accepted may interleave at their collaborator calls.         *)
(***************************************************************************)
EXTENDS Integers, Sequences, FiniteSets, TLC

VARIABLES calls, listed, registry

vars == <<calls, listed, registry>>

(***************************************************************************)
(* Bounds of the exploration.                                              *)
(***************************************************************************)
\* number of tool calls the server may have accepted and not yet answered
MaxInFlight == 2

\* number of fields of an argument bag that differ from the operation's
\* smallest valid bag
MaxBad == 2

(***************************************************************************)
(* JSON values as they arrive in `request.params.arguments` and as they    *)
(* are handed to the collaborators.  A value is its JavaScript type and a  *)
(* rendering of its content.                                               *)
(***************************************************************************)
Str(s) == [t |-> "string", v |-> s]

Num(s) == [t |-> "number", v |-> s]

Bool(s) == [t |-> "boolean", v |-> s]

Obj(s) == [t |-> "object", v |-> s]

Null == [t |-> "null", v |-> "null"]

Undefined == [t |-> "undefined", v |-> ""]

\* an argument bag without any key
EmptyBag == [f \in {} |-> Undefined]

\* property access `bag.f`
Get(bag, f) == IF f \in DOMAIN bag THEN bag[f] ELSE Undefined

\* JavaScript truthiness of the values used as conditions
Truthy(v) ==
  /\ v.t \notin {"undefined", "null"}
  /\ ~(v.t = "string" /\ v.v = "")
  /\ ~(v.t = "number" /\ v.v = "0")
  /\ ~(v.t = "boolean" /\ v.v = "false")

(***************************************************************************)
(* zod schemas.  A field is its base type, whether `.optional()` was       *)
(* applied, the `.default()` value and, for z.enum, the options.           *)
(***************************************************************************)
ZString == [type |-> "string", optional |-> FALSE, hasDefault |-> FALSE,
            default |-> Undefined, options |-> {}]

ZNumber == [type |-> "number", optional |-> FALSE, hasDefault |-> FALSE,
            default |-> Undefined, options |-> {}]

ZBoolean == [type |-> "boolean", optional |-> FALSE, hasDefault |-> FALSE,
             default |-> Undefined, options |-> {}]

ZEnum(opts) == [type |-> "enum", optional |-> FALSE, hasDefault |-> FALSE,
                default |-> Undefined, options |-> opts]

ZOptional(s) == [s EXCEPT !.optional = TRUE]

ZDefault(s, d) == [s EXCEPT !.hasDefault = TRUE, !.default = d]

\* one entry of ZodError.issues; path "" is the root of the argument object
Issue(path, code, expected, received) ==
  [path |-> path, code |-> code, expected |-> expected, received |-> received]

\* the issues zod raises for the value v of field f
FieldIssues(spec, f, v) ==
  IF v = Undefined
    THEN IF spec.optional \/ spec.hasDefault
           THEN {}
           ELSE {Issue(f, "invalid_type", spec.type, "undefined")}
    ELSE IF spec.type = "enum"
           THEN IF v.t # "string"
                  THEN {Issue(f, "invalid_type", spec.type, v.t)}
                  ELSE IF v.v \notin spec.options
                         THEN {Issue(f, "invalid_enum_value", spec.type, v.v)}
                         ELSE {}
           ELSE IF v.t # spec.type
                  THEN {Issue(f, "invalid_type", spec.type, v.t)}
                  ELSE {}

\* the output value of field f: the default replaces an absent value
FieldOutput(spec, v) ==
  IF v = Undefined /\ spec.hasDefault THEN spec.default ELSE v

\* a validator that stops at the first issue it finds
SafeParse_FirstIssueOnly(schema, hasArgs, args) ==
  IF ~hasArgs
    THEN [success |-> FALSE, data |-> EmptyBag,
          issues |-> {Issue("", "invalid_type", "object", "undefined")}]
    ELSE LET issues == UNION {FieldIssues(schema[f], f, Get(args, f)) :
                                f \in DOMAIN schema}
         IN  IF issues = {}
               THEN [success |-> TRUE,
                     data |-> [f \in DOMAIN schema |->
                                 FieldOutput(schema[f], Get(args, f))],
                     issues |-> {}]
               ELSE [success |-> FALSE, data |-> EmptyBag,
                     issues |-> {CHOOSE i \in issues : TRUE}]

\* a strict object schema: a key the schema does not declare is an issue
SafeParse_Strict(schema, hasArgs, args) ==
  IF ~hasArgs
    THEN [success |-> FALSE, data |-> EmptyBag,
          issues |-> {Issue("", "invalid_type", "object", "undefined")}]
    ELSE LET issues ==
               UNION {FieldIssues(schema[f], f, Get(args, f)) :
                        f \in DOMAIN schema}
                 \cup {Issue(f, "unrecognized_keys", "", "") :
                         f \in DOMAIN args \ DOMAIN schema}
         IN  IF issues = {}
               THEN [success |-> TRUE,
                     data |-> [f \in DOMAIN schema |->
                                 FieldOutput(schema[f], Get(args, f))],
                     issues |-> {}]
               ELSE [success |-> FALSE, data |-> EmptyBag, issues |-> issues]

\* schema.safeParse(args); hasArgs is FALSE when the request carries no
\* `arguments` member, so that the handler parses `undefined`.  Keys the
\* schema does not declare are stripped from the output.
SafeParse(schema, hasArgs, args) ==
  IF ~hasArgs
    THEN [success |-> FALSE, data |-> EmptyBag,
          issues |-> {Issue("", "invalid_type", "object", "undefined")}]
    ELSE LET issues == UNION {FieldIssues(schema[f], f, Get(args, f)) :
                                f \in DOMAIN schema}
         IN  IF issues = {}
               THEN [success |-> TRUE,
                     data |-> [f \in DOMAIN schema |->
                                 FieldOutput(schema[f], Get(args, f))],
                     issues |-> {}]
               ELSE [success |-> FALSE, data |-> EmptyBag, issues |-> issues]

(***************************************************************************)
(* The argument schemas of each module.                                    *)
(***************************************************************************)
Limit10 == ZDefault(ZOptional(ZNumber), Num("10"))

Zero0 == ZDefault(ZOptional(ZNumber), Num("0"))

\* index.ts
Index_ListBucketsArgsSchema == [limit |-> Limit10, offset |-> Zero0]

Index_ListObjectsArgsSchema ==
  [bucketUuid |-> ZString, directoryUuid |-> ZOptional(ZString),
   limit |-> Limit10, offset |-> Zero0]

Index_UploadFileArgsSchema ==
  [bucketUuid |-> ZString, fileName |-> ZString, filePath |-> ZString,
   directoryPath |-> ZOptional(ZString)]

\* storage module
Storage_CreateBucketArgsSchema ==
  [name |-> ZString, description |-> ZOptional(ZString)]

Storage_ListBucketsArgsSchema == [limit |-> Limit10, page |-> Zero0]

Storage_ListObjectsArgsSchema ==
  [bucketUuid |-> ZString, directoryUuid |-> ZOptional(ZString),
   limit |-> Limit10, page |-> Zero0]

Storage_UploadFileArgsSchema ==
  [bucketUuid |-> ZString, fileName |-> ZString, filePath |-> ZString,
   directoryPath |-> ZOptional(ZString)]

\* hosting.ts
Hosting_ListWebsitesArgsSchema == [limit |-> Limit10, page |-> Zero0]

Hosting_GetWebsiteArgsSchema == [uuid |-> ZString]

Hosting_CreateWebsiteArgsSchema ==
  [name |-> ZString, description |-> ZOptional(ZString),
   domain |-> ZOptional(ZString), bucketUuid |-> ZString]

Hosting_UploadWebsiteFilesArgsSchema ==
  [websiteUuid |-> ZString, folderPath |-> ZString]

Hosting_DeployWebsiteArgsSchema ==
  [websiteUuid |-> ZString, environment |-> ZEnum({"staging", "production"})]

Hosting_ListDeploymentsArgsSchema ==
  [websiteUuid |-> ZString, limit |-> Limit10, page |-> Zero0]

\* the hosting module that creates websites by a raw HTTP request
HostingHttp_ListWebsitesArgsSchema == [limit |-> Limit10, offset |-> Zero0]

HostingHttp_GetWebsiteArgsSchema == [uuid |-> ZString]

HostingHttp_CreateWebsiteArgsSchema ==
  [name |-> ZString, description |-> ZOptional(ZString),
   domain |-> ZOptional(ZString), bucketUuid |-> ZString]

HostingHttp_UploadWebsiteFilesArgsSchema ==
  [websiteUuid |-> ZString, folderPath |-> ZString]

HostingHttp_DeployWebsiteArgsSchema ==
  [websiteUuid |-> ZString, environment |-> ZEnum({"staging", "production"})]

HostingHttp_ListDeploymentsArgsSchema ==
  [websiteUuid |-> ZString, limit |-> Limit10, offset |-> Zero0]

\* NFT module
ListCollectionsArgsSchema == [limit |-> Limit10, page |-> Zero0]

GetCollectionArgsSchema == [uuid |-> ZString]

CreateCollectionArgsSchema ==
  [name |-> ZString, symbol |-> ZString, description |-> ZOptional(ZString),
   isRevokable |-> ZBoolean, isSoulbound |-> ZBoolean,
   isAutoIncrement |-> ZOptional(ZBoolean),
   chain |-> ZEnum({"MOONBEAM", "MOONBASE", "ASTAR"}),
   baseUri |-> ZString, maxSupply |-> ZOptional(ZNumber),
   royaltiesAddress |-> ZOptional(ZString), royaltiesFees |-> ZNumber,
   drop |-> ZBoolean, dropStart |-> ZOptional(ZNumber),
   dropPrice |-> ZOptional(ZNumber), dropReserve |-> ZOptional(ZNumber)]

MintNftArgsSchema ==
  [collectionUuid |-> ZString,
   quantity |-> ZDefault(ZOptional(ZNumber), Num("1")),
   tokenId |-> ZOptional(ZNumber)]

BurnNftArgsSchema == [collectionUuid |-> ZString, tokenId |-> ZString]

TransferOwnershipArgsSchema ==
  [collectionUuid |-> ZString, address |-> ZString]

ListTransactionsArgsSchema ==
  [collectionUuid |-> ZString, limit |-> Limit10, page |-> Zero0]

(***************************************************************************)
(* Tool descriptors: the name and the input contract of each tool, in      *)
(* declaration order.                                                      *)
(***************************************************************************)
Tool(name, schema) == [name |-> name, inputSchema |-> schema]

\* the descriptors the list_tools handler of index.ts returns
Index_tools ==
  << Tool("list_buckets", Index_ListBucketsArgsSchema),
     Tool("list_objects", Index_ListObjectsArgsSchema),
     Tool("upload_file", Index_UploadFileArgsSchema) >>

storageTools ==
  << Tool("create_bucket", Storage_CreateBucketArgsSchema),
     Tool("list_buckets", Storage_ListBucketsArgsSchema),
     Tool("list_objects", Storage_ListObjectsArgsSchema),
     Tool("upload_file", Storage_UploadFileArgsSchema) >>

\* a descriptor list that advertises create_website, whose schema hosting.ts
\* declares, without a case for it in the switch
hostingTools_AdvertisesCreateWebsite ==
  << Tool("list_websites", Hosting_ListWebsitesArgsSchema),
     Tool("get_website", Hosting_GetWebsiteArgsSchema),
     Tool("create_website", Hosting_CreateWebsiteArgsSchema),
     Tool("upload_website_files", Hosting_UploadWebsiteFilesArgsSchema),
     Tool("deploy_website", Hosting_DeployWebsiteArgsSchema),
     Tool("list_deployments", Hosting_ListDeploymentsArgsSchema) >>

hostingTools ==
  << Tool("list_websites", Hosting_ListWebsitesArgsSchema),
     Tool("get_website", Hosting_GetWebsiteArgsSchema),
     Tool("upload_website_files", Hosting_UploadWebsiteFilesArgsSchema),
     Tool("deploy_website", Hosting_DeployWebsiteArgsSchema),
     Tool("list_deployments", Hosting_ListDeploymentsArgsSchema) >>

HostingHttp_hostingTools ==
  << Tool("list_websites", HostingHttp_ListWebsitesArgsSchema),
     Tool("get_website", HostingHttp_GetWebsiteArgsSchema),
     Tool("create_website", HostingHttp_CreateWebsiteArgsSchema),
     Tool("upload_website_files", HostingHttp_UploadWebsiteFilesArgsSchema),
     Tool("deploy_website", HostingHttp_DeployWebsiteArgsSchema),
     Tool("list_deployments", HostingHttp_ListDeploymentsArgsSchema) >>

\* an NFT list whose second descriptor took the name of a hosting tool
nftTools_Clash ==
  << Tool("list_collections", ListCollectionsArgsSchema),
     Tool("get_website", GetCollectionArgsSchema),
     Tool("create_collection", CreateCollectionArgsSchema),
     Tool("mint_nft", MintNftArgsSchema),
     Tool("burn_nft", BurnNftArgsSchema),
     Tool("transfer_ownership", TransferOwnershipArgsSchema),
     Tool("list_transactions", ListTransactionsArgsSchema) >>

nftTools ==
  << Tool("list_collections", ListCollectionsArgsSchema),
     Tool("get_collection", GetCollectionArgsSchema),
     Tool("create_collection", CreateCollectionArgsSchema),
     Tool("mint_nft", MintNftArgsSchema),
     Tool("burn_nft", BurnNftArgsSchema),
     Tool("transfer_ownership", TransferOwnershipArgsSchema),
     Tool("list_transactions", ListTransactionsArgsSchema) >>

\* the names of a descriptor list, in order
Names(tools) == [i \in 1..Len(tools) |-> tools[i].name]

NameSet(tools) == {tools[i].name : i \in 1..Len(tools)}

(***************************************************************************)
(* Texts.  A text is a sequence of parts: a literal of the source, the     *)
(* rendering of a ZodError (its issues), or the JSON rendering of a value. *)
(***************************************************************************)
Lit(s) == [k |-> "lit", s |-> s, iss |-> {}, j |-> Undefined]

\* `${parsed.error}`: ZodError.toString() renders the whole issue list
ZodErrorText(issues) ==
  << [k |-> "issues", s |-> "", iss |-> issues, j |-> Undefined] >>

\* JSON.stringify(value, null, 2); of `undefined` it is `undefined`, which is
\* no string
JSONStringify(v) ==
  IF v.t = "undefined"
    THEN << [k |-> "undefined", s |-> "", iss |-> {}, j |-> Undefined] >>
    ELSE << [k |-> "json", s |-> "", iss |-> {}, j |-> v] >>

\* String(value) of a thrown value that is no Error
StringOf(v) ==
  CASE v.t = "object" -> "[object Object]"
    [] v.t = "undefined" -> "undefined"
    [] OTHER -> v.v

\* what a collaborator may throw: an Error with a message, or any value
Err(m) == [isError |-> TRUE, message |-> <<Lit(m)>>, value |-> Undefined]

NonErr(v) == [isError |-> FALSE, message |-> <<>>, value |-> v]

\* error instanceof Error ? error.message : String(error)
ErrorText(e) == IF e.isError THEN e.message ELSE << Lit(StringOf(e.value)) >>

(***************************************************************************)
(* Outcomes of a handler and response envelopes.                           *)
(***************************************************************************)
NoOutcome ==
  [kind |-> "none", content |-> <<>>, isError |-> FALSE, message |-> <<>>]

\* `return { content: [{ type: "text", text }] }`; the isError member is
\* absent from the object, which a client reads as "no error"
Returned(text) ==
  [kind |-> "envelope", content |-> << [type |-> "text", text |-> text] >>,
   isError |-> FALSE, message |-> <<>>]

\* `throw new Error(message)` leaving the handler
Threw(message) ==
  [kind |-> "threw", content |-> <<>>, isError |-> FALSE, message |-> message]

\* a catch clause that reports the failure without flagging the envelope
FailureBoundary_Unflagged(outcome) ==
  IF outcome.kind = "threw"
    THEN [kind |-> "envelope",
          content |-> << [type |-> "text",
                          text |-> <<Lit("Error: ")>> \o outcome.message] >>,
          isError |-> FALSE, message |-> <<>>]
    ELSE outcome

\* the catch clause around the switch of the call_tool handler
FailureBoundary(outcome) ==
  IF outcome.kind = "threw"
    THEN [kind |-> "envelope",
          content |-> << [type |-> "text",
                          text |-> <<Lit("Error: ")>> \o outcome.message] >>,
          isError |-> TRUE, message |-> <<>>]
    ELSE outcome

(***************************************************************************)
(* The switch of each handler: for a tool name, whether a case exists, the *)
(* schema it parses with, the collaborator operations it awaits in order   *)
(* and the prefix of its catch clause.                                     *)
(***************************************************************************)
Case(schema, awaits, prefix) ==
  [known |-> TRUE, schema |-> schema, awaits |-> awaits, prefix |-> prefix]

Default == [known |-> FALSE, schema |-> EmptyBag, awaits |-> <<>>, prefix |-> ""]

\* index.ts, the call_tool handler
Index_CallTool(name) ==
  CASE name = "list_buckets" ->
         Case(Index_ListBucketsArgsSchema, <<"storage.listBuckets">>,
              "Failed to list buckets: ")
    [] name = "list_objects" ->
         Case(Index_ListObjectsArgsSchema, <<"bucket.listObjects">>,
              "Failed to list objects: ")
    [] name = "upload_file" ->
         Case(Index_UploadFileArgsSchema, <<"fs.readFile", "bucket.uploadFiles">>,
              "Failed to upload file: ")
    [] OTHER -> Default

handleStorageTool(name) ==
  CASE name = "create_bucket" ->
         Case(Storage_CreateBucketArgsSchema, <<"storage.createBucket">>,
              "Failed to create bucket: ")
    [] name = "list_buckets" ->
         Case(Storage_ListBucketsArgsSchema, <<"storage.listBuckets">>,
              "Failed to list buckets: ")
    [] name = "list_objects" ->
         Case(Storage_ListObjectsArgsSchema, <<"bucket.listObjects">>,
              "Failed to list objects: ")
    [] name = "upload_file" ->
         Case(Storage_UploadFileArgsSchema,
              <<"fs.readFile", "bucket.uploadFiles">>,
              "Failed to upload file: ")
    [] OTHER -> Default

handleHostingTool(name) ==
  CASE name = "list_websites" ->
         Case(Hosting_ListWebsitesArgsSchema, <<"hosting.listWebsites">>,
              "Failed to list websites: ")
    [] name = "get_website" ->
         Case(Hosting_GetWebsiteArgsSchema, <<"website.get">>,
              "Failed to get website: ")
    [] name = "upload_website_files" ->
         Case(Hosting_UploadWebsiteFilesArgsSchema,
              <<"website.uploadFromFolder">>,
              "Failed to upload website files: ")
    [] name = "deploy_website" ->
         Case(Hosting_DeployWebsiteArgsSchema, <<"website.deploy">>,
              "Failed to deploy website: ")
    [] name = "list_deployments" ->
         Case(Hosting_ListDeploymentsArgsSchema, <<"website.listDeployments">>,
              "Failed to list deployments: ")
    [] OTHER -> Default

HostingHttp_handleHostingTool(name) ==
  CASE name = "list_websites" ->
         Case(HostingHttp_ListWebsitesArgsSchema, <<"hosting.listWebsites">>,
              "Failed to list websites: ")
    [] name = "get_website" ->
         Case(HostingHttp_GetWebsiteArgsSchema, <<"website.get">>,
              "Failed to get website: ")
    [] name = "create_website" ->
         Case(HostingHttp_CreateWebsiteArgsSchema, <<"fetch", "response.json">>,
              "Failed to create website: ")
    [] name = "upload_website_files" ->
         Case(HostingHttp_UploadWebsiteFilesArgsSchema,
              <<"website.uploadFromFolder">>,
              "Failed to upload website files: ")
    [] name = "deploy_website" ->
         Case(HostingHttp_DeployWebsiteArgsSchema, <<"website.deploy">>,
              "Failed to deploy website: ")
    [] name = "list_deployments" ->
         Case(HostingHttp_ListDeploymentsArgsSchema,
              <<"website.listDeployments">>,
              "Failed to list deployments: ")
    [] OTHER -> Default

handleNftTool(name) ==
  CASE name = "list_collections" ->
         Case(ListCollectionsArgsSchema, <<"nft.listCollections">>,
              "Failed to list collections: ")
    [] name = "get_collection" ->
         Case(GetCollectionArgsSchema, <<"collection.get">>,
              "Failed to get collection: ")
    [] name = "create_collection" ->
         Case(CreateCollectionArgsSchema, <<"nft.create">>,
              "Failed to create collection: ")
    [] name = "mint_nft" ->
         Case(MintNftArgsSchema, <<"collection.mint">>,
              "Failed to mint NFT: ")
    [] name = "burn_nft" ->
         Case(BurnNftArgsSchema, <<"collection.burn">>,
              "Failed to burn NFT: ")
    [] name = "transfer_ownership" ->
         Case(TransferOwnershipArgsSchema, <<"collection.transferOwnership">>,
              "Failed to transfer ownership: ")
    [] name = "list_transactions" ->
         Case(ListTransactionsArgsSchema, <<"collection.listTransactions">>,
              "Failed to list transactions: ")
    [] OTHER -> Default

\* the functions a tool call can enter: the call_tool handler of the server
\* and the exported handlers of the domain modules
Modules == {"index", "storage", "hosting", "hostingHttp", "nft"}

Handler(module, name) ==
  CASE module = "index" -> Index_CallTool(name)
    [] module = "storage" -> handleStorageTool(name)
    [] module = "hosting" -> handleHostingTool(name)
    [] module = "hostingHttp" -> HostingHttp_handleHostingTool(name)
    [] module = "nft" -> handleNftTool(name)

\* a default case that does not say which name was asked for
UnknownTool_Nameless(module, name) == << Lit("Unknown tool") >>

\* the message of the default case of each switch
UnknownTool(module, name) ==
  CASE module = "index" -> << Lit("Unknown tool: "), Lit(name) >>
    [] module = "storage" -> << Lit("Unknown storage tool: "), Lit(name) >>
    [] module \in {"hosting", "hostingHttp"} ->
         << Lit("Unknown hosting tool: "), Lit(name) >>
    [] module = "nft" -> << Lit("Unknown NFT tool: "), Lit(name) >>

\* `Invalid arguments for <case label>: ${parsed.error}`; in every case of
\* every switch the label written in the message is the case's own label
InvalidArguments(name, issues) ==
  << Lit("Invalid arguments for "), Lit(name), Lit(": ") >>
    \o ZodErrorText(issues)

(***************************************************************************)
(* What each case hands to its collaborator.                               *)
(***************************************************************************)
\* values of the SDK's enumerations
Enum(s) == [t |-> "enum", v |-> s]

\* map[key] of a lookup table; a key without entry yields undefined
Lookup(map, key) ==
  IF key.t = "string" /\ key.v \in DOMAIN map THEN Enum(map[key.v]) ELSE Undefined

\* a table without the entry for production
environmentMap_StagingOnly == [staging |-> "TO_STAGING"]

environmentMap ==
  [staging |-> "TO_STAGING", production |-> "DIRECTLY_TO_PRODUCTION"]

chainMap == [MOONBEAM |-> "MOONBEAM", MOONBASE |-> "MOONBASE", ASTAR |-> "ASTAR"]

\* the second argument of bucket.uploadFiles
UploadOptions(directoryPath) ==
  IF Truthy(directoryPath)
    THEN [t |-> "options.directoryPath", v |-> directoryPath.v]
    ELSE Undefined

\* an upload that is handed the path of the file for its content
UploadFilesArgs_PathAsContent(data, fileBuffer) ==
  [bucket |-> data.bucketUuid, fileName |-> data.fileName,
   contentType |-> Str("application/octet-stream"), content |-> data.filePath,
   options |-> UploadOptions(data.directoryPath)]

\* the arguments of bucket.uploadFiles, the same in index.ts and the storage
\* module
UploadFilesArgs(data, fileBuffer) ==
  [bucket |-> data.bucketUuid, fileName |-> data.fileName,
   contentType |-> Str("application/octet-stream"), content |-> fileBuffer,
   options |-> UploadOptions(data.directoryPath)]

Index_Payload(name, step, data, got) ==
  CASE name = "list_buckets" -> [limit |-> data.limit]
    [] name = "list_objects" ->
         [bucket |-> data.bucketUuid, directoryUuid |-> data.directoryUuid,
          limit |-> data.limit]
    [] name = "upload_file" /\ step = 1 -> [path |-> data.filePath]
    [] name = "upload_file" /\ step = 2 -> UploadFilesArgs(data, got[1])

Storage_Payload(name, step, data, got) ==
  CASE name = "create_bucket" ->
         [name |-> data.name, description |-> data.description]
    [] name = "list_buckets" ->
         [limit |-> data.limit, page |-> data.page, status |-> Num("5")]
    [] name = "list_objects" ->
         [bucket |-> data.bucketUuid, directoryUuid |-> data.directoryUuid,
          limit |-> data.limit]
    [] name = "upload_file" /\ step = 1 -> [path |-> data.filePath]
    [] name = "upload_file" /\ step = 2 -> UploadFilesArgs(data, got[1])

Hosting_Payload(name, step, data, got) ==
  CASE name = "list_websites" ->
         [limit |-> data.limit, page |-> data.page, status |-> Num("5")]
    [] name = "get_website" -> [website |-> data.uuid]
    [] name = "upload_website_files" ->
         [website |-> data.websiteUuid, folderPath |-> data.folderPath]
    [] name = "deploy_website" ->
         [website |-> data.websiteUuid,
          environment |-> Lookup(environmentMap, data.environment)]
    [] name = "list_deployments" ->
         [website |-> data.websiteUuid, limit |-> data.limit]

HostingHttp_Payload(name, step, data, got) ==
  CASE name = "list_websites" -> [limit |-> data.limit]
    [] name = "get_website" -> [website |-> data.uuid]
    [] name = "create_website" /\ step = 1 ->
         [url |-> Str("https://api-dev.apillon.io/hosting/websites"),
          method |-> Str("POST"), name |-> data.name,
          description |-> data.description, domain |-> data.domain,
          bucketUuid |-> data.bucketUuid]
    [] name = "create_website" /\ step = 2 -> [response |-> got[1]]
    [] name = "upload_website_files" ->
         [website |-> data.websiteUuid, folderPath |-> data.folderPath]
    [] name = "deploy_website" ->
         [website |-> data.websiteUuid,
          environment |-> Lookup(environmentMap, data.environment)]
    [] name = "list_deployments" ->
         [website |-> data.websiteUuid, limit |-> data.limit]

Nft_Payload(name, step, data, got) ==
  CASE name = "list_collections" ->
         [limit |-> data.limit, page |-> data.page, status |-> Num("5")]
    [] name = "get_collection" -> [collection |-> data.uuid]
    [] name = "create_collection" ->
         [name |-> data.name, symbol |-> data.symbol,
          description |-> data.description, isRevokable |-> data.isRevokable,
          isSoulbound |-> data.isSoulbound,
          isAutoIncrement |-> data.isAutoIncrement,
          chain |-> Lookup(chainMap, data.chain),
          collectionType |-> Enum("GENERIC"), baseUri |-> data.baseUri,
          baseExtension |-> Str(".json"), maxSupply |-> data.maxSupply,
          royaltiesAddress |-> data.royaltiesAddress,
          royaltiesFees |-> data.royaltiesFees, drop |-> data.drop,
          dropStart |-> data.dropStart, dropPrice |-> data.dropPrice,
          dropReserve |-> data.dropReserve]
    [] name = "mint_nft" ->
         [collection |-> data.collectionUuid, quantity |-> data.quantity,
          tokenId |-> data.tokenId]
    [] name = "burn_nft" ->
         [collection |-> data.collectionUuid, tokenId |-> data.tokenId]
    [] name = "transfer_ownership" ->
         [collection |-> data.collectionUuid, address |-> data.address]
    [] name = "list_transactions" ->
         [collection |-> data.collectionUuid, limit |-> data.limit]

Payload(module, name, step, data, got) ==
  CASE module = "index" -> Index_Payload(name, step, data, got)
    [] module = "storage" -> Storage_Payload(name, step, data, got)
    [] module = "hosting" -> Hosting_Payload(name, step, data, got)
    [] module = "hostingHttp" -> HostingHttp_Payload(name, step, data, got)
    [] module = "nft" -> Nft_Payload(name, step, data, got)

\* the statuses for which Response.ok holds, among those the model draws
OkStatus == {"200 OK", "201 Created"}

\* a case that reads the body of the response whatever its status
ThrowsAfter_BodyOfAnyResponse(module, name, step, result) == <<>>

\* what a case throws by itself after an await has resolved: create_website
\* rejects a response that is not OK before reading its body
ThrowsAfter(module, name, step, result) ==
  IF module = "hostingHttp" /\ name = "create_website" /\ step = 1
       /\ result.v \notin OkStatus
    THEN << << Lit("API error: "), Lit(result.v) >> >>
    ELSE <<>>

\* the text of the envelope a case returns after its last await
SuccessText(module, name, got) ==
  IF module \in {"hosting", "hostingHttp"} /\ name = "upload_website_files"
    THEN JSONStringify(Obj("{success: true, message: Files uploaded successfully}"))
    ELSE JSONStringify(got[Len(got)])

(***************************************************************************)
(* One tool call: the request, what the handler has done so far and, once  *)
(* it has finished, what it returned or threw.                             *)
(***************************************************************************)
NoParse == [success |-> FALSE, data |-> EmptyBag, issues |-> {}]

IdleCall ==
  [pc |-> "idle", module |-> "", name |-> "", hasArgs |-> FALSE,
   args |-> EmptyBag, validated |-> FALSE, parsed |-> NoParse, step |-> 0,
   invocations |-> <<>>, got |-> <<>>, rejected |-> <<>>, raised |-> <<>>,
   outcome |-> NoOutcome]

\* the handler has finished: it returned an envelope or threw; what leaves
\* the call_tool handler of index.ts has passed its catch clause
Finish(call, outcome) ==
  [call EXCEPT !.pc = "done",
               !.raised = IF outcome.kind = "threw"
                            THEN << outcome.message >> ELSE @,
               !.outcome = IF call.module = "index"
                             THEN FailureBoundary(outcome) ELSE outcome]

\* a handler that issues its first collaborator call before it looks at the
\* result of safeParse
Begin_CollaboratorFirst(module, name, hasArgs, args) ==
  LET h == Handler(module, name)
      parsed == SafeParse(h.schema, hasArgs, args)
      call == [IdleCall EXCEPT !.module = module, !.name = name,
                               !.hasArgs = hasArgs, !.args = args]
  IN  IF ~h.known
        THEN Finish(call, Threw(UnknownTool(module, name)))
        ELSE IF ~parsed.success
               THEN Finish([call EXCEPT !.validated = TRUE, !.parsed = parsed,
                                        !.invocations =
                                           << [op |-> h.awaits[1],
                                               payload |-> args] >>],
                           Threw(InvalidArguments(name, parsed.issues)))
               ELSE [call EXCEPT
                       !.validated = TRUE, !.parsed = parsed,
                       !.pc = "await", !.step = 1,
                       !.invocations =
                          << [op |-> h.awaits[1],
                              payload |-> Payload(module, name, 1,
                                                  parsed.data, <<>>)] >>]

\* the handler from its entry to its first await (or to its end)
Begin(module, name, hasArgs, args) ==
  LET h == Handler(module, name)
      parsed == SafeParse(h.schema, hasArgs, args)
      call == [IdleCall EXCEPT !.module = module, !.name = name,
                               !.hasArgs = hasArgs, !.args = args]
  IN  IF ~h.known
        THEN Finish(call, Threw(UnknownTool(module, name)))
        ELSE IF ~parsed.success
               THEN Finish([call EXCEPT !.validated = TRUE, !.parsed = parsed],
                           Threw(InvalidArguments(name, parsed.issues)))
               ELSE [call EXCEPT
                       !.validated = TRUE, !.parsed = parsed,
                       !.pc = "await", !.step = 1,
                       !.invocations =
                          << [op |-> h.awaits[1],
                              payload |-> Payload(module, name, 1,
                                                  parsed.data, <<>>)] >>]

\* the awaited collaborator call resolved with `result`
Continue(call, result) ==
  LET h == Handler(call.module, call.name)
      got == Append(call.got, result)
      thrown == ThrowsAfter(call.module, call.name, call.step, result)
  IN  IF thrown # <<>>
        THEN Finish([call EXCEPT !.got = got],
                    Threw(<<Lit(h.prefix)>> \o thrown[1]))
        ELSE IF call.step < Len(h.awaits)
               THEN [call EXCEPT
                       !.got = got, !.step = call.step + 1,
                       !.invocations =
                          Append(@, [op |-> h.awaits[call.step + 1],
                                     payload |-> Payload(call.module, call.name,
                                                         call.step + 1,
                                                         call.parsed.data, got)])]
               ELSE Finish([call EXCEPT !.got = got],
                           Returned(SuccessText(call.module, call.name, got)))

\* a catch clause that issues the rejected collaborator call once more before
\* it gives up
Fail_Retry(call, e) ==
  IF Len(call.invocations) = call.step
    THEN [call EXCEPT !.invocations = Append(@, @[call.step])]
    ELSE Finish([call EXCEPT !.rejected = << e >>],
                Threw(<<Lit(Handler(call.module, call.name).prefix)>>
                        \o ErrorText(e)))

\* a catch clause that rethrows the collaborator's message as it is
Fail_NoPrefix(call, e) ==
  Finish([call EXCEPT !.rejected = << e >>], Threw(ErrorText(e)))

\* the awaited collaborator call rejected with `e`: the catch clause of the
\* case
Fail(call, e) ==
  Finish([call EXCEPT !.rejected = << e >>],
         Threw(<<Lit(Handler(call.module, call.name).prefix)>>
                 \o ErrorText(e)))

(***************************************************************************)
(* Inputs: tool names, argument bags, collaborator answers.                *)
(***************************************************************************)
DeclaredNames ==
  NameSet(storageTools) \cup NameSet(hostingTools)
    \cup NameSet(HostingHttp_hostingTools) \cup NameSet(nftTools)

\* a name no module declares
UndeclaredNames == {"format_disk", "delete_bucket"}

ToolNames == DeclaredNames \cup NameSet(Index_tools) \cup UndeclaredNames

SchemasOf(name) ==
  {Handler(m, name).schema : m \in {n \in Modules : Handler(n, name).known}}

\* the keys an argument bag for `name` is built from: every field some
\* module declares for the tool and one field no module declares
BagFields(name) == UNION {DOMAIN s : s \in SchemasOf(name)} \cup {"extra"}

SpecsOf(name, f) == {s[f] : s \in {x \in SchemasOf(name) : f \in DOMAIN x}}

RequiredFields(name) ==
  {f \in BagFields(name) :
     \E sp \in SpecsOf(name, f) : ~sp.optional /\ ~sp.hasDefault}

ValidValue(sp) ==
  CASE sp.type = "string" -> Str("docs")
    [] sp.type = "number" -> Num("7")
    [] sp.type = "boolean" -> Bool("true")
    [] sp.type = "enum" -> Str(CHOOSE o \in sp.options : TRUE)

\* the bag with the required fields only
SmallestValidBag(name) ==
  [f \in RequiredFields(name) |->
     ValidValue(CHOOSE sp \in SpecsOf(name, f) : TRUE)]

\* the values a field is given; Undefined removes the key from the bag.
\* Every field is given a string, a number and a boolean; a field that may
\* be left out is also given null and the empty string, an enumerated
\* field its options and a string outside of them.
Candidates(name, f) ==
  {Undefined, Str("docs"), Num("7"), Bool("true")}
    \cup (IF \E sp \in SpecsOf(name, f) : sp.optional
            THEN {Null, Str("")} ELSE {})
    \cup UNION {{Str(o) : o \in sp.options} : sp \in SpecsOf(name, f)}
    \cup (IF \E sp \in SpecsOf(name, f) : sp.type = "enum"
            THEN {Str("canary")} ELSE {})

\* bag `base` with the fields of DOMAIN ch set as ch says
Altered(base, ch) ==
  [f \in ((DOMAIN base \ DOMAIN ch) \cup {g \in DOMAIN ch : ch[g] # Undefined})
     |-> IF f \in DOMAIN ch THEN ch[f] ELSE base[f]]

\* the three definitions above, tabulated per tool name
BagFieldsOf == [n \in ToolNames |-> BagFields(n)]

SmallestOf == [n \in ToolNames |-> SmallestValidBag(n)]

CandidatesOf == [n \in ToolNames |-> [f \in BagFields(n) |-> Candidates(n, f)]]

AllCandidatesOf ==
  [n \in ToolNames |-> UNION {Candidates(n, f) : f \in BagFields(n)}]

\* the argument bags drawn for a tool: those that differ from its smallest
\* valid bag in at most MaxBad fields, each holding one of its candidates
IsArgBag(name, bag) ==
  LET diff == {f \in BagFieldsOf[name] : Get(bag, f) # Get(SmallestOf[name], f)}
  IN  /\ DOMAIN bag \subseteq BagFieldsOf[name]
      /\ Cardinality(diff) <= MaxBad
      /\ \A f \in diff : Get(bag, f) \in CandidatesOf[name][f]

\* what a collaborator call may resolve with
Resolutions(op) ==
  CASE op = "fs.readFile" -> {[t |-> "bytes", v |-> "0xCAFE"], [t |-> "bytes", v |-> ""]}
    [] op = "fetch" -> {[t |-> "response", v |-> "200 OK"],
                        [t |-> "response", v |-> "201 Created"],
                        [t |-> "response", v |-> "404 Not Found"]}
    [] op = "website.uploadFromFolder" -> {Undefined, Obj("list")}
    [] OTHER -> {Obj("record"), Obj("list")}

\* what a collaborator call may reject with
Rejections == {Err("ENOENT"), NonErr(Str("timeout")), NonErr(Obj("x"))}

(***************************************************************************)
(* The server.                                                             *)
(***************************************************************************)
Slots == 1..MaxInFlight

Request(module, name, hasArgs, args) ==
  [module |-> module, name |-> name, hasArgs |-> hasArgs, args |-> args]

\* Calls overlap at their awaits.  The exploration lets the calls of the
\* server process overlap when they carry their smallest valid bag; every
\* other request is followed on its own.
OverlapRequests ==
  {Request("index", n, TRUE, SmallestValidBag(n)) :
     n \in NameSet(Index_tools) \cup UndeclaredNames}

RequestOf(call) == Request(call.module, call.name, call.hasArgs, call.args)

Alone == \A d \in Slots : calls[d].pc = "idle"

\* slot c may accept a request: the exploration starts a call in the first
\* slot when no call is in flight, and in any free slot next to overlapping
\* requests
Free(c) ==
  /\ calls[c].pc = "idle"
  /\ \/ Alone /\ c = 1
     \/ /\ ~Alone
        /\ \A d \in Slots :
             calls[d].pc = "idle" \/ RequestOf(calls[d]) \in OverlapRequests

\* The requests slot c accepts in the current state.  A handler reads the
\* argument bag only in the cases of its switch, so the bags vary for the
\* names the module has a case for; for any other name the request comes
\* without arguments or with the smallest valid bag.
Admissible(c, req) ==
  /\ Free(c)
  /\ req.module \in Modules
  /\ req.name \in ToolNames
  /\ Alone \/ req \in OverlapRequests
  /\ \/ ~req.hasArgs /\ req.args = EmptyBag
     \/ /\ req.hasArgs
        /\ IF Handler(req.module, req.name).known
             THEN IsArgBag(req.name, req.args)
             ELSE req.args = SmallestOf[req.name]

Init ==
  /\ calls = [c \in Slots |-> IdleCall]
  /\ listed = <<>>
  /\ registry = [storage |-> storageTools, hosting |-> hostingTools,
                 hostingHttp |-> HostingHttp_hostingTools, nft |-> nftTools]

\* the list_tools handler of index.ts
ListTools ==
  /\ listed' = Index_tools
  /\ UNCHANGED <<calls, registry>>

\* a handler that keeps the parsed arguments in a variable all calls share:
\* a call that begins replaces those of the calls that are suspended
CallTool_SharedParse(c, req) ==
  /\ calls[c].pc = "idle"
  /\ Admissible(c, req)
  /\ calls' = [d \in Slots |->
                 IF d = c
                   THEN Begin(req.module, req.name, req.hasArgs, req.args)
                   ELSE IF calls[d].pc = "await"
                          THEN [calls[d] EXCEPT !.parsed =
                                  Begin(req.module, req.name, req.hasArgs,
                                        req.args).parsed]
                          ELSE calls[d]]
  /\ UNCHANGED <<listed, registry>>

\* a tool call enters a handler and runs to its first await
CallTool(c, req) ==
  /\ calls[c].pc = "idle"
  /\ Admissible(c, req)
  /\ calls' = [calls EXCEPT ![c] =
                 Begin(req.module, req.name, req.hasArgs, req.args)]
  /\ UNCHANGED <<listed, registry>>

\* collaborator calls memoised by operation: an answer settles every call
\* that is suspended on the same operation
CollaboratorResolves_Memoised(c, result) ==
  /\ calls[c].pc = "await"
  /\ result \in Resolutions(calls[c].invocations[calls[c].step].op)
  /\ calls' = [d \in Slots |->
                 IF /\ calls[d].pc = "await"
                    /\ calls[d].invocations[calls[d].step].op =
                         calls[c].invocations[calls[c].step].op
                   THEN Continue(calls[d], result)
                   ELSE calls[d]]
  /\ UNCHANGED <<listed, registry>>

CollaboratorResolves(c, result) ==
  /\ calls[c].pc = "await"
  /\ result \in Resolutions(calls[c].invocations[calls[c].step].op)
  /\ calls' = [calls EXCEPT ![c] = Continue(calls[c], result)]
  /\ UNCHANGED <<listed, registry>>

CollaboratorRejects(c, e) ==
  /\ calls[c].pc = "await"
  /\ calls' = [calls EXCEPT ![c] = Fail(calls[c], e)]
  /\ UNCHANGED <<listed, registry>>

\* the response has left the process
Deliver(c) ==
  /\ calls[c].pc = "done"
  /\ calls' = [calls EXCEPT ![c] = IdleCall]
  /\ UNCHANGED <<listed, registry>>

Next ==
  \/ ListTools
  \/ \E c \in Slots :
       /\ Free(c)
       /\ \/ \E req \in OverlapRequests : CallTool(c, req)
          \/ /\ Alone
             /\ \E m \in Modules, n \in ToolNames :
                  \/ CallTool(c, Request(m, n, FALSE, EmptyBag))
                  \/ CallTool(c, Request(m, n, TRUE, SmallestOf[n]))
                  \/ /\ Handler(m, n).known
                     /\ \E S \in SUBSET BagFieldsOf[n] :
                          /\ S # {}
                          /\ Cardinality(S) <= MaxBad
                          /\ \E ch \in [S -> AllCandidatesOf[n]] :
                               /\ \A f \in S :
                                    /\ ch[f] \in CandidatesOf[n][f]
                                    /\ ch[f] # Get(SmallestOf[n], f)
                               /\ CallTool(c, Request(m, n, TRUE,
                                                      Altered(SmallestOf[n], ch)))
  \/ \E c \in Slots :
       /\ calls[c].pc = "await"
       /\ \E result \in Resolutions(calls[c].invocations[calls[c].step].op) :
            CollaboratorResolves(c, result)
  \/ \E c \in Slots, e \in Rejections : CollaboratorRejects(c, e)
  \/ \E c \in Slots : Deliver(c)

Spec == Init /\ [][Next]_vars

(***************************************************************************)
(* Vocabulary of the properties.                                           *)
(***************************************************************************)
\* the call entered a case of the switch of its handler
Handled(call) == Handler(call.module, call.name).known

SchemaOf(call) == Handler(call.module, call.name).schema

\* the text of the only block of the envelope
EnvelopeText(call) == call.outcome.content[1].text

HasLit(text, s) == \E i \in 1..Len(text) : text[i].k = "lit" /\ text[i].s = s

\* the issue lists a text renders
IssuesIn(text) == UNION {text[i].iss : i \in 1..Len(text)}

\* the call failed with the validation message of its operation
ValidationError(call) ==
  /\ call.pc = "done"
  /\ call.raised # <<>>
  /\ Len(call.raised[1]) = 4
  /\ call.raised[1][1] = Lit("Invalid arguments for ")
  /\ call.raised[1][2] = Lit(call.name)
  /\ call.raised[1][4].k = "issues"
  /\ call.raised[1][4].iss # {}

\* the fields a schema requires
RequiredOf(schema) ==
  {f \in DOMAIN schema : ~schema[f].optional /\ ~schema[f].hasDefault}

\* the value of a field is of another type than the schema declares
WrongType(sp, v) ==
  /\ v # Undefined
  /\ IF sp.type = "enum" THEN v.t # "string" ELSE v.t # sp.type

\* how a value violates the declaration of its field
Violation(sp, v) ==
  IF v = Undefined
    THEN IF sp.optional \/ sp.hasDefault THEN "none" ELSE "missing"
    ELSE IF WrongType(sp, v)
           THEN "wrong type"
           ELSE IF sp.type = "enum" /\ v.v \notin sp.options
                  THEN "invalid enum value" ELSE "none"

\* how an issue describes the violation
NatureOf(issue) ==
  IF issue.code = "invalid_enum_value"
    THEN "invalid enum value"
    ELSE IF issue.code = "invalid_type" /\ issue.received = "undefined"
           THEN "missing" ELSE "wrong type"

\* the fields of the call's schema that its arguments violate
Violated(call) ==
  {f \in DOMAIN SchemaOf(call) :
     Violation(SchemaOf(call)[f], Get(call.args, f)) # "none"}

\* the names declared by the storage, hosting and NFT descriptor lists
RegisteredNames ==
  NameSet(registry.storage) \cup NameSet(registry.hosting)
    \cup NameSet(registry.hostingHttp) \cup NameSet(registry.nft)

(***************************************************************************)
(* C1  Every call of the call_tool handler of the server ends with a       *)
(* response envelope, whatever the tool name, the arguments and the        *)
(* collaborator's answer; when an error was raised on the way (validation, *)
(* unknown tool, collaborator), the envelope is flagged isError and holds  *)
(* exactly one text block, "Error: " followed by the error's message.      *)
(***************************************************************************)
C1_RouterAlwaysAnswersWithEnvelope ==
  \A c \in Slots :
    (calls[c].module = "index" /\ calls[c].pc = "done") =>
      /\ calls[c].outcome.kind = "envelope"
      /\ Len(calls[c].outcome.content) = 1
      /\ calls[c].outcome.content[1].type = "text"
      /\ calls[c].raised # <<>> =>
           /\ calls[c].outcome.isError
           /\ EnvelopeText(calls[c]) = <<Lit("Error: ")>> \o calls[c].raised[1]

\* a call of the server whose collaborator rejected with a value that is no
\* Error has been answered
C1_Witness ==
  \E c \in Slots :
    /\ calls[c].module = "index" /\ calls[c].pc = "done"
    /\ calls[c].invocations # <<>>
    /\ calls[c].outcome.isError
    /\ EnvelopeText(calls[c]) =
         << Lit("Error: "), Lit("Failed to list buckets: "), Lit("timeout") >>

(***************************************************************************)
(* C2  A call of the server with a name that no descriptor list declares   *)
(* is answered by an error envelope whose text contains "Unknown tool" and *)
(* the name; nothing was validated and no collaborator was called.         *)
(***************************************************************************)
C2_UnknownToolEnvelope ==
  \A c \in Slots :
    (calls[c].module = "index" /\ calls[c].pc = "done"
       /\ calls[c].name \notin RegisteredNames) =>
      /\ calls[c].outcome.kind = "envelope"
      /\ calls[c].outcome.isError
      /\ HasLit(EnvelopeText(calls[c]), "Unknown tool: ")
      /\ HasLit(EnvelopeText(calls[c]), calls[c].name)
      /\ ~calls[c].validated
      /\ calls[c].invocations = <<>>

C2_Witness ==
  \E c \in Slots :
    /\ calls[c].module = "index" /\ calls[c].pc = "done"
    /\ calls[c].name = "format_disk"
    /\ calls[c].hasArgs
    /\ calls[c].outcome.isError

(***************************************************************************)
(* C3  (as claimed) A call of the server that names an operation of the    *)
(* storage, hosting or NFT descriptor lists, with arguments that satisfy   *)
(* the operation's contract, reaches the operation's collaborator and is   *)
(* never answered with an unknown-tool error.                              *)
(***************************************************************************)
C3_DeclaredOperationsAreRouted ==
  \A c \in Slots :
    (calls[c].module = "index" /\ calls[c].pc = "done"
       /\ calls[c].name \in RegisteredNames
       /\ calls[c].hasArgs /\ calls[c].args = SmallestOf[calls[c].name]) =>
      /\ ~HasLit(EnvelopeText(calls[c]), "Unknown tool: ")
      /\ calls[c].invocations # <<>>

(***************************************************************************)
(* C4  (as claimed) list_tools returns the storage descriptors, then the   *)
(* hosting descriptors, then the NFT descriptors, each list in declaration *)
(* order, so as many descriptors as the three lists hold together.         *)
(***************************************************************************)
C4_ListToolsConcatenatesDomains ==
  listed # <<>> =>
    /\ listed = registry.storage \o registry.hosting \o registry.nft
    /\ Len(listed) =
         Len(registry.storage) + Len(registry.hosting) + Len(registry.nft)

(***************************************************************************)
(* C5  Tool names are pairwise distinct within the storage, hosting and    *)
(* NFT descriptor lists and across them (for either hosting module).       *)
(***************************************************************************)
PairwiseDistinct(tools) ==
  \A i, j \in 1..Len(tools) : i # j => tools[i].name # tools[j].name

C5_ToolNamesDistinct ==
  /\ PairwiseDistinct(registry.storage \o registry.hosting \o registry.nft)
  /\ PairwiseDistinct(registry.storage \o registry.hostingHttp \o registry.nft)

\* a tool of each of the three lists has been called through its handler
C5_Witness ==
  \E c \in Slots :
    /\ calls[c].pc = "done"
    /\ calls[c].outcome.kind = "envelope"
    /\ calls[c].module = "nft"
    /\ calls[c].name \in NameSet(registry.nft)
    /\ Len(registry.storage \o registry.hosting \o registry.nft) = 16

(***************************************************************************)
(* C6  In every case of every handler, arguments that fail the operation's *)
(* schema end the call before any collaborator is called, with the message *)
(* "Invalid arguments for <operation>: " followed by the validation errors.*)
(***************************************************************************)
C6_ValidationPrecedesCollaborator ==
  \A c \in Slots :
    (calls[c].pc # "idle" /\ Handled(calls[c])
       /\ ~SafeParse(SchemaOf(calls[c]), calls[c].hasArgs, calls[c].args).success) =>
      /\ calls[c].invocations = <<>>
      /\ calls[c].got = <<>>
      /\ ValidationError(calls[c])
      /\ IssuesIn(calls[c].raised[1]) =
           SafeParse(SchemaOf(calls[c]), calls[c].hasArgs, calls[c].args).issues

\* upload_file with a numeric filePath was refused by the storage handler
C6_Witness ==
  \E c \in Slots :
    /\ calls[c].module = "storage" /\ calls[c].name = "upload_file"
    /\ calls[c].hasArgs /\ Get(calls[c].args, "filePath") = Num("7")
    /\ ValidationError(calls[c])
    /\ calls[c].invocations = <<>>

(***************************************************************************)
(* C7  (as claimed) For every operation and each of its required fields: a *)
(* call that omits the field fails with a validation error that names the  *)
(* field, and a call that gives it a value of another type fails with a    *)
(* validation error that names the field and the type it received.         *)
(***************************************************************************)
C7_RequiredFieldErrorsNameTheField ==
  \A c \in Slots :
    (calls[c].pc # "idle" /\ Handled(calls[c])) =>
      \A f \in RequiredOf(SchemaOf(calls[c])) :
        LET v == Get(calls[c].args, f)
        IN  /\ v = Undefined =>
                 /\ ValidationError(calls[c])
                 /\ \E i \in IssuesIn(calls[c].raised[1]) :
                      i.path = f /\ i.received = "undefined"
            /\ WrongType(SchemaOf(calls[c])[f], v) =>
                 /\ ValidationError(calls[c])
                 /\ \E i \in IssuesIn(calls[c].raised[1]) :
                      i.path = f /\ i.code = "invalid_type" /\ i.received = v.t

(***************************************************************************)
(* C8  (as claimed) A call that carries the required fields only validates *)
(* to arguments whose optional fields hold the defaults of the operations  *)
(* table: limit = 10 and page = 0 for the six list operations, quantity =  *)
(* 1 for mint_nft.                                                         *)
(***************************************************************************)
DeclaredDefaults(name) ==
  CASE name \in {"list_buckets", "list_objects", "list_websites",
                 "list_deployments", "list_collections", "list_transactions"} ->
         [limit |-> Num("10"), page |-> Num("0")]
    [] name = "mint_nft" -> [quantity |-> Num("1")]
    [] OTHER -> EmptyBag

C8_DefaultsOfTheOperationsTable ==
  \A c \in Slots :
    (calls[c].pc # "idle" /\ Handled(calls[c]) /\ calls[c].hasArgs
       /\ DOMAIN calls[c].args = RequiredOf(SchemaOf(calls[c]))
       /\ Violated(calls[c]) = {}) =>
      /\ calls[c].parsed.success
      /\ \A f \in DOMAIN DeclaredDefaults(calls[c].name) :
           Get(calls[c].parsed.data, f) = DeclaredDefaults(calls[c].name)[f]

(***************************************************************************)
(* C9  When an argument bag violates the schema in several fields, the     *)
(* validation error of the call lists every violated field, each with the  *)
(* nature of its violation (missing, wrong type, invalid enum value), and  *)
(* no other field.                                                         *)
(***************************************************************************)
C9_EveryViolationIsReported ==
  \A c \in Slots :
    (calls[c].pc # "idle" /\ Handled(calls[c]) /\ calls[c].hasArgs
       /\ Violated(calls[c]) # {}) =>
      /\ ValidationError(calls[c])
      /\ {<<i.path, NatureOf(i)>> : i \in IssuesIn(calls[c].raised[1])} =
           {<<f, Violation(SchemaOf(calls[c])[f], Get(calls[c].args, f))>> :
              f \in Violated(calls[c])}

\* create_collection without name and with a chain outside the enumeration
C9_Witness ==
  \E c \in Slots :
    /\ calls[c].module = "nft" /\ calls[c].name = "create_collection"
    /\ calls[c].hasArgs
    /\ "name" \notin DOMAIN calls[c].args
    /\ Get(calls[c].args, "chain") = Str("canary")
    /\ ValidationError(calls[c])
    /\ Cardinality(IssuesIn(calls[c].raised[1])) = 2

(***************************************************************************)
(* C10  deploy_website reaches the collaborator only with environment      *)
(* staging or production and create_collection only with chain MOONBEAM,   *)
(* MOONBASE or ASTAR, and then with the entry of the handler's lookup      *)
(* table, never with undefined; any other value fails validation before    *)
(* any collaborator call.                                                  *)
(***************************************************************************)
Environments == {Str("staging"), Str("production")}

Chains == {Str("MOONBEAM"), Str("MOONBASE"), Str("ASTAR")}

C10_EnumLookupIsExhaustive ==
  \A c \in Slots :
    /\ \A k \in 1..Len(calls[c].invocations) :
         LET inv == calls[c].invocations[k]
         IN  /\ inv.op = "website.deploy" =>
                  /\ Get(calls[c].args, "environment") \in Environments
                  /\ inv.payload.environment \in
                       {Enum("TO_STAGING"), Enum("DIRECTLY_TO_PRODUCTION")}
             /\ inv.op = "nft.create" =>
                  /\ Get(calls[c].args, "chain") \in Chains
                  /\ inv.payload.chain \in
                       {Enum("MOONBEAM"), Enum("MOONBASE"), Enum("ASTAR")}
    /\ (calls[c].pc # "idle" /\ Handled(calls[c]) /\ calls[c].hasArgs
          /\ \/ /\ calls[c].name = "deploy_website"
                /\ Get(calls[c].args, "environment") \notin Environments
             \/ /\ calls[c].name = "create_collection"
                /\ Get(calls[c].args, "chain") \notin Chains) =>
         /\ ValidationError(calls[c])
         /\ calls[c].invocations = <<>>

\* a deployment to production is awaited
C10_Witness ==
  \E c \in Slots :
    /\ calls[c].module = "hosting" /\ calls[c].name = "deploy_website"
    /\ calls[c].pc = "await"
    /\ Get(calls[c].args, "environment") = Str("production")
    /\ calls[c].invocations[1].payload.environment = Enum("DIRECTLY_TO_PRODUCTION")

(***************************************************************************)
(* C11  (as claimed) When a collaborator call or the file read of a call   *)
(* of the server raises an error, the text of the error envelope begins    *)
(* with the prefix of the operation ("Failed to upload file: ").           *)
(***************************************************************************)
\* the call ended in the catch clause of its case: a collaborator call
\* rejected, or the case threw on the collaborator's answer
CollaboratorError(call) ==
  /\ call.pc = "done"
  /\ call.invocations # <<>>
  /\ call.raised # <<>>

PrefixOf(call) == Lit(Handler(call.module, call.name).prefix)

C11_EnvelopeBeginsWithPrefix ==
  \A c \in Slots :
    (calls[c].module = "index" /\ CollaboratorError(calls[c])) =>
      EnvelopeText(calls[c])[1] = PrefixOf(calls[c])

(***************************************************************************)
(* C11  (amended) When a collaborator call or the file read of a call      *)
(* raises an error, the message the handler throws begins with the prefix  *)
(* of the operation, followed by the error's message; the text of the      *)
(* error envelope of the server is "Error: " followed by that message, so  *)
(* the prefix stands second in it.                                         *)
(***************************************************************************)
C11_PrefixFollowsErrorLabel ==
  \A c \in Slots :
    CollaboratorError(calls[c]) =>
      /\ Len(calls[c].raised[1]) >= 2
      /\ calls[c].raised[1][1] = PrefixOf(calls[c])
      /\ calls[c].rejected # <<>> =>
           calls[c].raised[1] =
             << PrefixOf(calls[c]) >> \o ErrorText(calls[c].rejected[1])
      /\ calls[c].module = "index" =>
           /\ calls[c].outcome.isError
           /\ EnvelopeText(calls[c])[1] = Lit("Error: ")
           /\ EnvelopeText(calls[c])[2] = PrefixOf(calls[c])

\* the file read of upload_file failed with ENOENT in the server
C11_Witness ==
  \E c \in Slots :
    /\ calls[c].module = "index" /\ calls[c].name = "upload_file"
    /\ CollaboratorError(calls[c])
    /\ calls[c].rejected = << Err("ENOENT") >>
    /\ EnvelopeText(calls[c]) =
         << Lit("Error: "), Lit("Failed to upload file: "), Lit("ENOENT") >>

(***************************************************************************)
(* C12  (as claimed) For every operation, a call whose arguments pass      *)
(* validation and whose collaborator calls succeed returns an envelope     *)
(* that is not flagged as an error and holds exactly one block of type     *)
(* "text", whose text is the pretty-printed JSON rendering of what the     *)
(* collaborator returned; upload_website_files included.                   *)
(***************************************************************************)
\* the call went through all its collaborator calls and returned
Succeeded(call) ==
  /\ call.pc = "done"
  /\ call.invocations # <<>>
  /\ call.raised = <<>>

\* what the last collaborator call of the call resolved with
CollaboratorResult(call) == call.got[Len(call.got)]

C12_SuccessRendersCollaboratorResult ==
  \A c \in Slots :
    Succeeded(calls[c]) =>
      /\ calls[c].outcome.kind = "envelope"
      /\ ~calls[c].outcome.isError
      /\ Len(calls[c].outcome.content) = 1
      /\ calls[c].outcome.content[1].type = "text"
      /\ EnvelopeText(calls[c]) = JSONStringify(CollaboratorResult(calls[c]))

(***************************************************************************)
(* C13  (as claimed) Round trip: for every successful call, parsing the    *)
(* text of the envelope as JSON gives a value equal to the result the      *)
(* collaborator returned for that call.                                    *)
(***************************************************************************)
\* JSON.parse(text): the value a JSON rendering stands for; a text that is
\* no JSON rendering does not parse
JSONParse(text) ==
  IF Len(text) = 1 /\ text[1].k = "json"
    THEN text[1].j
    ELSE [t |-> "SyntaxError", v |-> ""]

C13_RoundTrip ==
  \A c \in Slots :
    Succeeded(calls[c]) =>
      JSONParse(EnvelopeText(calls[c])) = CollaboratorResult(calls[c])

(***************************************************************************)
(* C14  No retries: within one call every collaborator operation is        *)
(* invoked at most once and the handler issues no more collaborator calls  *)
(* than its case has awaits; a collaborator failure ends the call at once, *)
(* with exactly one error outcome (one error envelope from the server) and *)
(* the failed invocation as the last one of the call.                      *)
(***************************************************************************)
C14_NoRetries ==
  \A c \in Slots :
    LET call == calls[c]
        inv == call.invocations
    IN  /\ \A i, j \in 1..Len(inv) : i # j => inv[i].op # inv[j].op
        /\ inv # <<>> => Len(inv) <= Len(Handler(call.module, call.name).awaits)
        /\ Len(call.got) <= Len(inv)
        /\ call.pc = "await" => Len(inv) = Len(call.got) + 1
        /\ call.rejected # <<>> =>
             /\ call.pc = "done"
             /\ Len(inv) = Len(call.got) + 1
             /\ Len(call.raised) = 1
             /\ IF call.module = "index"
                  THEN /\ call.outcome.kind = "envelope"
                       /\ call.outcome.isError
                       /\ Len(call.outcome.content) = 1
                  ELSE call.outcome.kind = "threw"

\* the upload of upload_file was rejected after the file had been read
C14_Witness ==
  \E c \in Slots :
    /\ calls[c].module = "index" /\ calls[c].name = "upload_file"
    /\ calls[c].pc = "done"
    /\ calls[c].rejected # <<>>
    /\ Len(calls[c].got) = 1
    /\ Len(calls[c].invocations) = 2
    /\ calls[c].invocations[2].op = "bucket.uploadFiles"
    /\ calls[c].outcome.isError

(***************************************************************************)
(* C15  (as claimed) Tool calls never overlap: while a call of the server  *)
(* is suspended on a collaborator call or a file read, no other call       *)
(* begins (validates, issues a collaborator call); each call is processed  *)
(* to its envelope before the next one begins.                             *)
(***************************************************************************)
\* call c begins in this step
Begins(c) == calls[c].pc = "idle" /\ calls'[c].pc # "idle"

Suspended(call) == call.pc = "await"

C15_CallsNeverOverlap ==
  [][\A c \in Slots :
       Begins(c) => \A d \in Slots \ {c} : ~Suspended(calls[d])]_vars

(***************************************************************************)
(* C15  (amended) The handler is asynchronous and nothing serialises its   *)
(* calls: while a call is suspended on a collaborator call or a file read  *)
(* another call may begin, validate and issue its own collaborator call.   *)
(* Overlapping calls do not interfere: every step (a call beginning, a     *)
(* collaborator answering, a response leaving) changes one call only and   *)
(* leaves the request, the validated arguments, the invocations and the    *)
(* answers of every other call as they were.                               *)
(***************************************************************************)
C15_OverlappingCallsDoNotInterfere ==
  [][\A c \in Slots :
       calls'[c] # calls[c] =>
         \A d \in Slots \ {c} : calls'[d] = calls[d]]_vars

\* upload_file is suspended on its upload while list_buckets, begun after
\* it, is suspended on its listing
C15_Witness ==
  \E c, d \in Slots :
    /\ c # d
    /\ calls[c].module = "index" /\ calls[c].name = "upload_file"
    /\ Suspended(calls[c]) /\ calls[c].step = 2
    /\ calls[d].module = "index" /\ calls[d].name = "list_buckets"
    /\ Suspended(calls[d])
    /\ calls[d].invocations[1].payload.limit = Num("10")

(***************************************************************************)
(* C16  No tool call changes state that a later request reads: the         *)
(* descriptor lists stay as they were at startup and list_tools returns    *)
(* the same descriptors in the same order whatever calls were made before  *)
(* or are in flight; what a call has validated, invoked and returned is    *)
(* what its handler makes of its own name, its own arguments and the       *)
(* answers of its own collaborator calls, whatever the other calls did.    *)
(***************************************************************************)
RECURSIVE Answered(_, _, _)
\* the call after its collaborator calls resolved with got[k], got[k+1], ...
Answered(call, got, k) ==
  IF k > Len(got) \/ call.pc # "await"
    THEN call
    ELSE Answered(Continue(call, got[k]), got, k + 1)

\* the handler run on its own on a request and the collaborator's answers
Replay(module, name, hasArgs, args, got, rejected) ==
  LET call == Answered(Begin(module, name, hasArgs, args), got, 1)
  IN  IF rejected # <<>> /\ call.pc = "await"
        THEN Fail(call, rejected[1])
        ELSE call

C16_CallsShareNoState ==
  /\ registry = [storage |-> storageTools, hosting |-> hostingTools,
                 hostingHttp |-> HostingHttp_hostingTools, nft |-> nftTools]
  /\ listed # <<>> => listed = Index_tools
  /\ \A c \in Slots :
       calls[c].pc # "idle" =>
         calls[c] = Replay(calls[c].module, calls[c].name, calls[c].hasArgs,
                           calls[c].args, calls[c].got, calls[c].rejected)

\* list_tools has answered, an upload has been answered and a listing begun
\* next to it is still suspended
C16_Witness ==
  \E c, d \in Slots :
    /\ c # d
    /\ listed = Index_tools
    /\ calls[c].module = "index" /\ calls[c].name = "upload_file"
    /\ Succeeded(calls[c])
    /\ EnvelopeText(calls[c]) = JSONStringify(Obj("record"))
    /\ calls[d].module = "index" /\ calls[d].name = "list_objects"
    /\ Suspended(calls[d])

(***************************************************************************)
(* C17  Fields the operation's schema does not declare are ignored: they   *)
(* are neither rejected nor forwarded.  A call whose bag carries such      *)
(* fields validates, invokes the collaborator and is answered exactly as   *)
(* the call with the same bag without them; in particular a valid bag      *)
(* stays valid and no payload holds an undeclared field.                   *)
(***************************************************************************)
\* the fields of the call's bag that its schema does not declare
Undeclared(call) == DOMAIN call.args \ DOMAIN SchemaOf(call)

\* the bag without them
Declared(call) ==
  [f \in DOMAIN call.args \cap DOMAIN SchemaOf(call) |-> call.args[f]]

C17_UnknownFieldsAreIgnored ==
  \A c \in Slots :
    (calls[c].pc # "idle" /\ Handled(calls[c]) /\ calls[c].hasArgs
       /\ Undeclared(calls[c]) # {}) =>
      /\ [calls[c] EXCEPT !.args = Declared(calls[c])] =
           Replay(calls[c].module, calls[c].name, TRUE, Declared(calls[c]),
                  calls[c].got, calls[c].rejected)
      /\ Violated(calls[c]) = {} => calls[c].parsed.success
      /\ calls[c].parsed.success =>
           DOMAIN calls[c].parsed.data = DOMAIN SchemaOf(calls[c])
      /\ \A k \in 1..Len(calls[c].invocations) :
           DOMAIN calls[c].invocations[k].payload \cap Undeclared(calls[c]) = {}

\* create_bucket with an undeclared field has been answered by the storage
\* handler with the collaborator's record
C17_Witness ==
  \E c \in Slots :
    /\ calls[c].module = "storage" /\ calls[c].name = "create_bucket"
    /\ calls[c].hasArgs
    /\ Get(calls[c].args, "extra") = Str("docs")
    /\ Succeeded(calls[c])
    /\ calls[c].invocations[1].payload =
         [name |-> Str("docs"), description |-> Undefined]
    /\ EnvelopeText(calls[c]) = JSONStringify(Obj("record"))

(***************************************************************************)
(* C18  (as claimed) upload_file hands the destination directory to the    *)
(* upload exactly when the caller supplied directoryPath, and then the     *)
(* value supplied; without directoryPath the upload gets no options        *)
(* object at all.  A supplied directoryPath is never dropped.              *)
(***************************************************************************)
\* the upload that an upload_file call has issued, if any
Uploads(call) ==
  {k \in 1..Len(call.invocations) :
     call.name = "upload_file" /\ call.invocations[k].op = "bucket.uploadFiles"}

C18_DirectoryPathPassedWhenSupplied ==
  \A c \in Slots :
    \A k \in Uploads(calls[c]) :
      LET directoryPath == Get(calls[c].args, "directoryPath")
          options == calls[c].invocations[k].payload.options
      IN  IF directoryPath # Undefined
            THEN options = [t |-> "options.directoryPath",
                            v |-> directoryPath.v]
            ELSE options = Undefined

(***************************************************************************)
(* C19  upload_file reads the file completely before it invokes the        *)
(* upload: the upload is issued only after the read has resolved and gets  *)
(* exactly the bytes read, under the validated fileName and in the         *)
(* validated bucket.  When the read fails the upload is never invoked and  *)
(* the call fails with "Failed to upload file: " and the error's message,  *)
(* which is no validation error.                                           *)
(***************************************************************************)
C19_FileIsReadBeforeUpload ==
  \A c \in Slots :
    LET call == calls[c]
    IN  /\ \A k \in Uploads(call) :
             /\ k = 2
             /\ call.invocations[1].op = "fs.readFile"
             /\ call.invocations[1].payload =
                  [path |-> Get(call.args, "filePath")]
             /\ Len(call.got) >= 1
             /\ call.got[1].t = "bytes"
             /\ call.invocations[k].payload.content = call.got[1]
             /\ call.invocations[k].payload.fileName = call.parsed.data.fileName
             /\ call.invocations[k].payload.fileName = Get(call.args, "fileName")
             /\ call.invocations[k].payload.bucket = Get(call.args, "bucketUuid")
        /\ (call.name = "upload_file" /\ Handled(call) /\ call.rejected # <<>>
              /\ call.got = <<>>) =>
             /\ Uploads(call) = {}
             /\ Len(call.invocations) = 1
             /\ call.invocations[1].op = "fs.readFile"
             /\ call.raised[1] = << Lit("Failed to upload file: ") >>
                                    \o ErrorText(call.rejected[1])
             /\ ~ValidationError(call)
             /\ call.module = "index" =>
                  /\ call.outcome.isError
                  /\ EnvelopeText(call) = << Lit("Error: ") >> \o call.raised[1]

\* the storage handler has uploaded the bytes it read
C19_Witness ==
  \E c \in Slots :
    /\ calls[c].module = "storage" /\ calls[c].name = "upload_file"
    /\ Succeeded(calls[c])
    /\ calls[c].got[1] = [t |-> "bytes", v |-> "0xCAFE"]
    /\ calls[c].invocations[2].payload.content = [t |-> "bytes", v |-> "0xCAFE"]
    /\ calls[c].invocations[2].payload.fileName = Str("docs")

(***************************************************************************)
(* C20  (as claimed) Every operation invokes its collaborator with the     *)
(* validated arguments: each field of the validated arguments that holds a *)
(* value appears with that value (an enumerated one as its entry of the    *)
(* lookup table) in the payload of a collaborator call of the operation;   *)
(* limit and page of the list operations included, so that calls which     *)
(* differ in page make different invocations.                              *)
(***************************************************************************)
\* the members of a payload that stand for field f of the arguments
PayloadKeys(f) ==
  CASE f = "bucketUuid" -> {"bucket", "bucketUuid"}
    [] f = "websiteUuid" -> {"website"}
    [] f = "collectionUuid" -> {"collection"}
    [] f = "uuid" -> {"website", "collection"}
    [] f = "filePath" -> {"path"}
    [] f = "directoryPath" -> {"options"}
    [] OTHER -> {f}

\* the forms in which a payload carries the validated value v
Forms(v) ==
  {v, [t |-> "options.directoryPath", v |-> v.v]}
    \cup (IF v.t = "string" /\ v.v \in DOMAIN environmentMap
            THEN {Enum(environmentMap[v.v])} ELSE {})
    \cup (IF v.t = "string" /\ v.v \in DOMAIN chainMap
            THEN {Enum(chainMap[v.v])} ELSE {})

Forwarded(call, f) ==
  \E k \in 1..Len(call.invocations) :
    \E key \in PayloadKeys(f) \cap DOMAIN call.invocations[k].payload :
      call.invocations[k].payload[key] \in Forms(call.parsed.data[f])

\* the handler has issued every collaborator call of its case
IssuedAll(call) ==
  /\ call.pc # "idle"
  /\ Handled(call)
  /\ call.parsed.success
  /\ Len(call.invocations) = Len(Handler(call.module, call.name).awaits)

C20_ValidatedArgumentsReachCollaborator ==
  \A c \in Slots :
    IssuedAll(calls[c]) =>
      \A f \in DOMAIN calls[c].parsed.data :
        calls[c].parsed.data[f] # Undefined => Forwarded(calls[c], f)

(***************************************************************************)
(* C21  In every module the advertised names and the handled names         *)
(* coincide: the switch of handleStorageTool, of handleHostingTool (both   *)
(* variants), of handleNftTool and of the server has a case for a name if  *)
(* and only if the module's descriptor list declares the name, and a call  *)
(* ends with the module's "Unknown ... tool" error if and only if its name *)
(* is not in that list.                                                    *)
(***************************************************************************)
\* the descriptor list that stands next to the switch of the module
ToolsOf(module) ==
  IF module = "index" THEN Index_tools ELSE registry[module]

\* the call ended in the default case of its switch
UnknownToolError(call) ==
  /\ call.pc = "done"
  /\ call.raised = << UnknownTool(call.module, call.name) >>
  /\ ~call.validated
  /\ call.invocations = <<>>

C21_AdvertisedNamesAreTheHandledNames ==
  /\ \A m \in Modules, n \in ToolNames :
       Handler(m, n).known <=> n \in NameSet(ToolsOf(m))
  /\ \A c \in Slots :
       calls[c].pc = "done" =>
         (UnknownToolError(calls[c]) <=>
            calls[c].name \notin NameSet(ToolsOf(calls[c].module)))

\* create_website, which only the second hosting module advertises, has been
\* refused by the first and taken on by the second
C21_Witness ==
  \E c \in Slots :
    /\ calls[c].module = "hosting" /\ calls[c].name = "create_website"
    /\ calls[c].hasArgs /\ calls[c].args = SmallestOf["create_website"]
    /\ UnknownToolError(calls[c])
    /\ calls[c].raised[1] =
         << Lit("Unknown hosting tool: "), Lit("create_website") >>
    /\ Handler("hostingHttp", "create_website").known

(***************************************************************************)
(* C22  In the hosting module that creates a website by an HTTP request,   *)
(* create_website returns an envelope only when the response is OK, and    *)
(* then the rendering of the response's body.  For a response that is not  *)
(* OK the body is never read and the call fails with "Failed to create     *)
(* website: API error: <status> <statusText>"; a request that fails (and a *)
(* body that cannot be read) fails the call with the same "Failed to       *)
(* create website: " prefix, followed by the error's message.              *)
(***************************************************************************)
CreatesWebsiteOverHttp(call) ==
  /\ call.pc # "idle"
  /\ call.module = "hostingHttp"
  /\ call.name = "create_website"

C22_CreateWebsiteChecksTheResponse ==
  \A c \in Slots :
    CreatesWebsiteOverHttp(calls[c]) =>
      LET call == calls[c]
      IN  /\ (call.pc = "done" /\ call.outcome.kind = "envelope") =>
               /\ Len(call.got) = 2
               /\ call.got[1].t = "response"
               /\ call.got[1].v \in OkStatus
               /\ ~call.outcome.isError
               /\ EnvelopeText(call) = JSONStringify(call.got[2])
          /\ \A k \in 1..Len(call.invocations) :
               call.invocations[k].op = "response.json" =>
                 /\ k = 2
                 /\ call.got[1].v \in OkStatus
                 /\ call.invocations[k].payload = [response |-> call.got[1]]
          /\ (call.got # <<>> /\ call.got[1].v \notin OkStatus) =>
               /\ call.pc = "done"
               /\ Len(call.got) = 1
               /\ Len(call.invocations) = 1
               /\ call.outcome.kind = "threw"
               /\ call.raised[1] = << Lit("Failed to create website: "),
                                      Lit("API error: "), Lit(call.got[1].v) >>
          /\ call.rejected # <<>> =>
               /\ call.outcome.kind = "threw"
               /\ call.raised[1] = << Lit("Failed to create website: ") >>
                                      \o ErrorText(call.rejected[1])

\* the API answered 404 and the call has failed without reading the body
C22_Witness ==
  \E c \in Slots :
    /\ CreatesWebsiteOverHttp(calls[c])
    /\ calls[c].pc = "done"
    /\ calls[c].got = << [t |-> "response", v |-> "404 Not Found"] >>
    /\ Len(calls[c].invocations) = 1
    /\ calls[c].invocations[1].op = "fetch"
    /\ calls[c].raised[1] = << Lit("Failed to create website: "),
                               Lit("API error: "), Lit("404 Not Found") >>

(***************************************************************************)
(* C23  (as claimed) The cases of the server for list_buckets,             *)
(* list_objects and upload_file are equivalent to those of                 *)
(* handleStorageTool: on the same argument bag and the same collaborator   *)
(* answers both make the same collaborator invocations with the same       *)
(* payloads, and the envelope of the server is the outcome of              *)
(* handleStorageTool passed through the server's failure boundary.         *)
(***************************************************************************)
CommonStorageTools == NameSet(Index_tools) \cap NameSet(storageTools)

\* handleStorageTool run on the request and the answers of the call
ByStorageModule(call) ==
  Replay("storage", call.name, call.hasArgs, call.args, call.got,
         call.rejected)

C23_InlineHandlersEqualStorageModule ==
  \A c \in Slots :
    (calls[c].pc # "idle" /\ calls[c].module = "index"
       /\ calls[c].name \in CommonStorageTools) =>
      /\ calls[c].invocations = ByStorageModule(calls[c]).invocations
      /\ calls[c].pc = ByStorageModule(calls[c]).pc
      /\ calls[c].pc = "done" =>
           calls[c].outcome =
             FailureBoundary(ByStorageModule(calls[c]).outcome)

====
